---- MODULE Spec2Model ----
(***************************************************************************)
(* Empathetic Code Reviewer: EmpatheticCodeReviewer (code_reviewer.py).    *)
(*                                                                         *)
(* Text is a sequence of symbols.  A symbol of an input text (a snippet,   *)
(* a comment, an environment value, a backend response) is one character;  *)
(* a literal of the source's templates is one symbol holding the whole     *)
(* literal, with its line breaks split off as NL symbols.  An input text   *)
(* therefore never contains a template literal.                            *)
(***************************************************************************)
EXTENDS Integers, Sequences, FiniteSets

VARIABLES
    env,              \* the process environment: variable name -> text
    reviewer,         \* the EmpatheticCodeReviewer instance, if one was built
    init_call,        \* the last __init__ call: its argument and what it raised
    pc,               \* position inside generate_empathetic_review
    input_data,       \* the dict the running call was given
    code_snippet,     \* locals of generate_empathetic_review
    review_comments,
    language,
    severity_levels,
    prompt,
    reply,            \* what the backend answered to the running call
    outcome,          \* what the call returned or raised
    calls,            \* calls made by the running call, per callee
    remembered,       \* one earlier mock invocation: its input and its report
    probe,            \* a direct call of one helper: its argument and result
    session_state     \* st.session_state of one browser session of the web form

vars == <<env, reviewer, init_call, pc, input_data, code_snippet, review_comments,
          language, severity_levels, prompt, reply, outcome, calls, remembered, probe,
          session_state>>

(***************************************************************************)
(* Bounds.                                                                 *)
(***************************************************************************)
MaxComments == 2          \* longest review_comments list of a request
MaxSeverityFrags == 2     \* fragments concatenated into a probed comment
MaxLanguageFrags == 2     \* fragments concatenated into a probed snippet
MaxRows == 3              \* most rows of comment inputs the web form is grown to

(***************************************************************************)
(* Strings.                                                                *)
(***************************************************************************)
NL == "\n"
CR == "\r"
QUOTE == "\""
\* the fence literal of three U+0060 characters, which a TLA+ string cannot hold
FENCE == "<fence>"
None == <<"None">>

UpperCase == <<"A","B","C","D","E","F","G","H","I","J","K","L","M",
               "N","O","P","Q","R","S","T","U","V","W","X","Y","Z">>
LowerCase == <<"a","b","c","d","e","f","g","h","i","j","k","l","m",
               "n","o","p","q","r","s","t","u","v","w","x","y","z">>

\* str.lower on one character
lower_char(c) ==
    IF \E i \in 1..Len(UpperCase) : UpperCase[i] = c
    THEN LowerCase[CHOOSE i \in 1..Len(UpperCase) : UpperCase[i] = c]
    ELSE c

\* str.lower
lower(s) == [i \in 1..Len(s) |-> lower_char(s[i])]

\* needle in hay
Contains(needle, hay) ==
    \E p \in 0..(Len(hay) - Len(needle)) :
        \A k \in 1..Len(needle) : hay[p + k] = needle[k]

\* truth value of a str, a list or None
Truthy(v) == v # None /\ Len(v) > 0

RECURSIVE Flatten(_)
\* "".join(parts)
Flatten(parts) ==
    IF parts = <<>> THEN <<>> ELSE Head(parts) \o Flatten(Tail(parts))

RECURSIVE Join(_, _)
\* sep.join(parts)
Join(sep, parts) ==
    IF parts = <<>> THEN <<>>
    ELSE IF Len(parts) = 1 THEN parts[1]
    ELSE parts[1] \o sep \o Join(sep, Tail(parts))

Digits == <<"0","1","2","3","4","5","6","7","8","9">>

RECURSIVE IntToStr(_)
\* str(n), n >= 0
IntToStr(n) ==
    IF n < 10 THEN <<Digits[n + 1]>>
    ELSE IntToStr(n \div 10) \o <<Digits[(n % 10) + 1]>>

\* all concatenations of at most n fragments
RECURSIVE Concats(_, _)
Concats(frags, n) ==
    IF n = 0 THEN {<<>>}
    ELSE LET shorter == Concats(frags, n - 1)
         IN  shorter \cup {s \o f : s \in shorter, f \in frags}

(***************************************************************************)
(* _detect_language                                                        *)
(***************************************************************************)
PAT_def == <<"d","e","f"," ">>
PAT_colon == <<":">>
PAT_function == <<"f","u","n","c","t","i","o","n">>
PAT_brace == <<"{">>
PAT_public_class == <<"p","u","b","l","i","c"," ","c","l","a","s","s">>
PAT_private == <<"p","r","i","v","a","t","e"," ">>
PAT_include == <<"#","i","n","c","l","u","d","e">>
PAT_int_main == <<"i","n","t"," ","m","a","i","n">>
PAT_func == <<"f","u","n","c"," ">>

Python == <<"P","y","t","h","o","n">>
JavaScript == <<"J","a","v","a","S","c","r","i","p","t">>
Java == <<"J","a","v","a">>
Cpp == <<"C","+","+">>
Go == <<"G","o">>
Unknown == <<"U","n","k","n","o","w","n">>

\* a mutation: the JavaScript rule tried before the Python rule
DetectLanguageJsFirst(snippet) ==
    IF Contains(PAT_function, snippet) /\ Contains(PAT_brace, snippet) THEN JavaScript
    ELSE IF Contains(PAT_def, snippet) /\ Contains(PAT_colon, snippet) THEN Python
    ELSE IF Contains(PAT_public_class, snippet) \/ Contains(PAT_private, snippet) THEN Java
    ELSE IF Contains(PAT_include, snippet) \/ Contains(PAT_int_main, snippet) THEN Cpp
    ELSE IF Contains(PAT_func, snippet) /\ Contains(PAT_brace, snippet) THEN Go
    ELSE Unknown

_detect_language(snippet) ==
    IF Contains(PAT_def, snippet) /\ Contains(PAT_colon, snippet) THEN Python
    ELSE IF Contains(PAT_function, snippet) /\ Contains(PAT_brace, snippet) THEN JavaScript
    ELSE IF Contains(PAT_public_class, snippet) \/ Contains(PAT_private, snippet) THEN Java
    ELSE IF Contains(PAT_include, snippet) \/ Contains(PAT_int_main, snippet) THEN Cpp
    ELSE IF Contains(PAT_func, snippet) /\ Contains(PAT_brace, snippet) THEN Go
    ELSE Unknown

(***************************************************************************)
(* _assess_comment_severity                                                *)
(***************************************************************************)
harsh_words == <<
    <<"b","a","d">>,
    <<"t","e","r","r","i","b","l","e">>,
    <<"w","r","o","n","g">>,
    <<"s","t","u","p","i","d">>,
    <<"a","w","f","u","l">>,
    <<"h","o","r","r","i","b","l","e">>,
    <<"u","s","e","l","e","s","s">> >>

critical_words == <<
    <<"i","n","e","f","f","i","c","i","e","n","t">>,
    <<"r","e","d","u","n","d","a","n","t">>,
    <<"u","n","n","e","c","e","s","s","a","r","y">>,
    <<"p","o","o","r">>,
    <<"w","e","a","k">> >>

\* a mutation: the critical vocabulary searched before the harsh one
AssessSeverityCriticalFirst(comment) ==
    LET comment_lower == lower(comment)
    IN  IF \E i \in 1..Len(critical_words) : Contains(critical_words[i], comment_lower)
        THEN "critical"
        ELSE IF \E i \in 1..Len(harsh_words) : Contains(harsh_words[i], comment_lower)
        THEN "harsh"
        ELSE "mild"

_assess_comment_severity(comment) ==
    LET comment_lower == lower(comment)
    IN  IF \E i \in 1..Len(harsh_words) : Contains(harsh_words[i], comment_lower)
        THEN "harsh"
        ELSE IF \E i \in 1..Len(critical_words) : Contains(critical_words[i], comment_lower)
        THEN "critical"
        ELSE "mild"

(***************************************************************************)
(* __init__                                                                *)
(***************************************************************************)
EnvNames == {"USE_MOCK", "AZURE_OPENAI_API_KEY", "AZURE_OPENAI_ENDPOINT",
             "AZURE_OPENAI_API_VERSION", "AZURE_OPENAI_DEPLOYMENT_NAME"}

\* os.getenv(name): None when the variable is unset
getenv(name) == env[name]

\* os.getenv(name, default)
getenv_or(name, default) == IF env[name] = None THEN default ELSE env[name]

MockWords == { <<"1">>, <<"t","r","u","e">>, <<"y","e","s">> }

\* self.use_mock
InitUseMock(use_mock) ==
    use_mock \/ lower(getenv_or("USE_MOCK", <<>>)) \in MockWords

required_vars == <<"AZURE_OPENAI_API_KEY", "AZURE_OPENAI_ENDPOINT",
                   "AZURE_OPENAI_API_VERSION", "AZURE_OPENAI_DEPLOYMENT_NAME">>

\* a mutation: only unset variables count as missing, empty ones do not
MissingVarsUnsetOnly ==
    SelectSeq(required_vars, LAMBDA var : getenv(var) = None)

\* missing_vars
MissingVars ==
    SelectSeq(required_vars, LAMBDA var : ~Truthy(getenv(var)))

\* f"Missing required environment variables: {', '.join(missing_vars)}"
MissingVarsMessage(missing_vars) ==
    <<"Missing required environment variables: ">>
        \o Join(<<", ">>, [i \in 1..Len(missing_vars) |-> <<missing_vars[i]>>])

NoReviewer ==
    [exists |-> FALSE, use_mock |-> FALSE, api_key |-> None, endpoint |-> None,
     api_version |-> None, deployment_name |-> None]

NoInitCall == [made |-> FALSE, use_mock |-> FALSE, raised |-> FALSE, message |-> <<>>]

NoOutcome == [kind |-> "none", type |-> "", value |-> <<>>]
Returned(report) == [kind |-> "returned", type |-> "str", value |-> report]
Raised(type, message) == [kind |-> "raised", type |-> type, value |-> message]

ZeroCalls == [detect |-> 0, severity |-> 0, prompt |-> 0, mock |-> 0, backend |-> 0]

EmptyList == [kind |-> "list", items |-> <<>>]
NoInput == [keys |-> {}, code_snippet |-> <<>>, review_comments |-> EmptyList]
NoMemory == [set |-> FALSE, input |-> NoInput, report |-> <<>>]
NoProbe == [fn |-> "none", arg |-> <<>>, ret |-> <<>>]
NoReply == [net |-> "none", status |-> 0, body |-> "", content |-> <<>>]
\* a browser session before the script has run: no key in st.session_state,
\* the example selector on its first option
NoSession == [has_comments |-> FALSE, comments |-> <<>>, selected_example |-> "",
              clicked |-> "none"]

\* the frame of generate_empathetic_review, before a call and after it
FrameCleared ==
    /\ input_data' = NoInput
    /\ code_snippet' = <<>>
    /\ review_comments' = EmptyList
    /\ language' = <<>>
    /\ severity_levels' = <<>>
    /\ prompt' = <<>>
    /\ reply' = NoReply
    /\ outcome' = NoOutcome
    /\ calls' = ZeroCalls

\* EmpatheticCodeReviewer(use_mock), called while no request is running
Construct(use_mock) ==
    /\ pc = "idle"
    /\ LET self_use_mock == InitUseMock(use_mock)
           missing_vars == MissingVars
       IN  IF ~self_use_mock /\ missing_vars # <<>>
           THEN /\ reviewer' = NoReviewer
                /\ init_call' = [made |-> TRUE, use_mock |-> use_mock, raised |-> TRUE,
                                 message |-> MissingVarsMessage(missing_vars)]
           ELSE /\ reviewer' = [exists |-> TRUE,
                                use_mock |-> self_use_mock,
                                api_key |-> getenv("AZURE_OPENAI_API_KEY"),
                                endpoint |-> getenv("AZURE_OPENAI_ENDPOINT"),
                                api_version |-> getenv("AZURE_OPENAI_API_VERSION"),
                                deployment_name |-> getenv("AZURE_OPENAI_DEPLOYMENT_NAME")]
                /\ init_call' = [made |-> TRUE, use_mock |-> use_mock, raised |-> FALSE,
                                 message |-> <<>>]
    /\ UNCHANGED <<env, pc, input_data, code_snippet, review_comments, language,
                   severity_levels, prompt, reply, outcome, calls, remembered, probe,
                   session_state>>

(***************************************************************************)
(* generate_empathetic_review: its helpers                                 *)
(***************************************************************************)
\* input_data.get(key, default)
Get(d, key, default) == IF key \in d.keys THEN d[key] ELSE default

\* the elements a for loop over review_comments visits: the items of a
\* list, the one-character strings of a str
Iter(comments) ==
    IF comments.kind = "list" THEN comments.items
    ELSE [i \in 1..Len(comments.items) |-> <<comments.items[i]>>]

\* zip(a, b) stops with the shorter
ZipLen(a, b) == IF Len(a) <= Len(b) THEN Len(a) ELSE Len(b)

LineBreaks == {NL, CR}

RECURSIVE splitlines(_)
\* str.splitlines: the lines without their terminators (\n, \r, \r\n)
splitlines(s) ==
    IF s = <<>> THEN <<>>
    ELSE IF \A i \in 1..Len(s) : s[i] \notin LineBreaks THEN <<s>>
    ELSE LET brk == CHOOSE i \in 1..Len(s) :
                        /\ s[i] \in LineBreaks
                        /\ \A j \in 1..(i - 1) : s[j] \notin LineBreaks
             skip == IF s[brk] = CR /\ brk < Len(s) /\ s[brk + 1] = NL THEN 2 ELSE 1
         IN  <<SubSeq(s, 1, brk - 1)>> \o splitlines(SubSeq(s, brk + skip, Len(s)))

Whitespace == {" ", NL, CR, "\t"}

\* str.strip
strip(s) ==
    IF \A i \in 1..Len(s) : s[i] \in Whitespace THEN <<>>
    ELSE LET first == CHOOSE i \in 1..Len(s) :
                          /\ s[i] \notin Whitespace
                          /\ \A j \in 1..(i - 1) : s[j] \in Whitespace
             last == CHOOSE i \in 1..Len(s) :
                         /\ s[i] \notin Whitespace
                         /\ \A j \in (i + 1)..Len(s) : s[j] \in Whitespace
         IN  SubSeq(s, first, last)

(***************************************************************************)
(* _create_detailed_prompt                                                 *)
(***************************************************************************)
\* f"{i+1}. \"{comment}\" (Severity: {severity})", i counted from 0
CommentAnalysisLine(i, comment, severity) ==
    IntToStr(i + 1) \o <<". ", QUOTE>> \o comment \o <<QUOTE, " (Severity: ", severity, ")">>

comment_analysis(comments, severities) ==
    [k \in 1..ZipLen(comments, severities) |->
        CommentAnalysisLine(k - 1, comments[k], severities[k])]

_create_detailed_prompt(snippet, comments, lang, severities) ==
    Join(<<NL>>, <<
        <<>>,
        <<"Please transform the following code review into an empathetic, educational report.">>,
        <<>>,
        <<"**Code Snippet (">> \o lang \o <<"):**">>,
        <<FENCE>> \o lower(lang),
        snippet,
        <<FENCE>>,
        <<>>,
        <<"**Original Review Comments:**">>,
        Join(<<NL>>, comment_analysis(comments, severities)),
        <<>>,
        <<"**Instructions:**">>,
        <<"For each original comment, create a markdown section with the following structure:">>,
        <<>>,
        <<"---">>,
        <<"### Analysis of Comment", ": ", QUOTE, "[original comment]", QUOTE>>,
        <<>>,
        <<"* **Positive Rephrasing:**", " [Rewrite the comment in an encouraging, supportive way that acknowledges effort while suggesting improvement]">>,
        <<>>,
        <<"* **The 'Why':**", " [Explain the underlying software engineering principle, performance concern, or best practice. Include specific technical reasoning]">>,
        <<>>,
        <<"* **Suggested Improvement:**">>,
        <<FENCE>> \o lower(lang),
        <<"[Provide concrete code example showing the recommended fix]">>,
        <<FENCE>>,
        <<>>,
        <<"* **Learn More:**", " [If applicable, mention relevant documentation, style guides, or resources (e.g., PEP 8 for Python, MDN for JavaScript)]">>,
        <<>>,
        <<"---">>,
        <<>>,
        <<"**Additional Requirements:**">>,
        <<"1. Adjust your tone based on the severity of each original comment">>,
        <<"2. For harsh comments, be extra gentle and encouraging">>,
        <<"3. For critical comments, be supportive but educational">>,
        <<"4. For mild comments, be friendly and collaborative">>,
        <<>>,
        <<"5. End with a ", QUOTE, "**Overall Summary**", QUOTE, " section that:">>,
        <<"   - Acknowledges the developer's effort">>,
        <<"   - Summarizes the key improvements">>,
        <<"   - Encourages continued learning and growth">>,
        <<"   - Maintains a positive, motivational tone">>,
        <<>>,
        <<"Please ensure the response is well-formatted markdown and maintains a consistently empathetic tone throughout.">>,
        <<>> >>)

(***************************************************************************)
(* _create_mock_report                                                     *)
(***************************************************************************)
\* the severity switch of the 'Why' sentence
MockWhy(severity) ==
    IF severity = "harsh"
    THEN "The suggestion aims to improve reliability and readability while keeping your original intent."
    ELSE IF severity = "critical"
    THEN "This change balances readability and efficiency based on common best practices."
    ELSE "A small tweak can improve maintainability without changing behavior."

\* a mutation: the snippet stripped before it is split
MockRaisesWhenStripped(snippet) == Truthy(snippet) /\ splitlines(strip(snippet)) = <<>>

\* code_snippet.splitlines()[0] raises IndexError on a non-empty snippet
\* without lines
MockRaises(snippet) == Truthy(snippet) /\ splitlines(snippet) = <<>>

\* code_snippet.splitlines()[0] if code_snippet else "# (no code provided)"
MockCodeLine(snippet) ==
    IF Truthy(snippet) THEN splitlines(snippet)[1] ELSE <<"# (no code provided)">>

\* a mutation: the subsections numbered from 0
MockHeadingFromZero(i, comment) ==
    <<"### Analysis of Comment", " ">> \o IntToStr(i - 1) \o <<": ", QUOTE>> \o comment \o <<QUOTE>>

\* f"### Analysis of Comment {i}: \"{comment}\""
MockHeading(i, comment) ==
    <<"### Analysis of Comment", " ">> \o IntToStr(i) \o <<": ", QUOTE>> \o comment \o <<QUOTE>>

\* a mutation: the fence tagged with the detected name as it is, not lower-cased
MockSectionTagNotLowered(i, comment, severity, snippet, lang) == <<
    MockHeading(i, comment),
    <<>>,
    <<"* **Positive Rephrasing:**", " Nice progress here! Let's refine this area for clarity and performance.">>,
    <<>>,
    <<"* **The 'Why':**", " ", MockWhy(severity)>>,
    <<>>,
    <<"* **Suggested Improvement:**">>,
    <<FENCE>> \o lang,
    <<"# Example improvement (mock)", NL, "# Replace with a specific change based on context">>,
    MockCodeLine(snippet),
    <<FENCE>>,
    <<>>,
    <<"* **Learn More:**", " Consider consulting your team's style guide or official docs.">>,
    <<NL, "---", NL>> >>

\* the lines one pass of the loop appends, i counted from 1
MockSection(i, comment, severity, snippet, lang) == <<
    MockHeading(i, comment),
    <<>>,
    <<"* **Positive Rephrasing:**", " Nice progress here! Let's refine this area for clarity and performance.">>,
    <<>>,
    <<"* **The 'Why':**", " ", MockWhy(severity)>>,
    <<>>,
    <<"* **Suggested Improvement:**">>,
    <<FENCE>> \o lower(lang),
    <<"# Example improvement (mock)", NL, "# Replace with a specific change based on context">>,
    MockCodeLine(snippet),
    <<FENCE>>,
    <<>>,
    <<"* **Learn More:**", " Consider consulting your team's style guide or official docs.">>,
    <<NL, "---", NL>> >>

\* a mutation: the pairs visited in an arbitrary order, as the elements of a set are
MockOrdersAnyOrder(n) ==
    {o \in [1..n -> 1..n] : \A a, b \in 1..n : a # b => o[a] # o[b]}

\* the order in which the loop visits the zipped pairs: 1, 2, ...
MockOrders(n) == {[k \in 1..n |-> k]}

\* a mutation: the summary appended inside the loop, after every subsection
MockLinesSummaryInLoop(snippet, comments, lang, severities, order) ==
    << <<"---">> >>
        \o Flatten([k \in 1..Len(order) |->
                      MockSection(k, comments[order[k]], severities[order[k]], snippet, lang)
                          \o << <<"**Overall Summary**", NL>>, <<"Great work">> >>])

\* the list lines when the loop has visited the pairs in this order
MockLines(snippet, comments, lang, severities, order) ==
    << <<"---">> >>
        \o Flatten([k \in 1..Len(order) |->
                      MockSection(k, comments[order[k]], severities[order[k]], snippet, lang)])
        \o << <<"**Overall Summary**", NL>>,
              <<"Great work pushing this forward! With a few focused adjustments, your code will be clearer and easier to maintain. Keep iterating--you're on the right track!">> >>   \* the source has a dash character here

_create_mock_report(snippet, comments, lang, severities, order) ==
    Join(<<NL>>, MockLines(snippet, comments, lang, severities, order))

(***************************************************************************)
(* _call_azure_openai                                                      *)
(***************************************************************************)
\* what requests.post and the service can answer
BackendTexts == {
    <<NL, "---", NL, "### Analysis of Comment", ":", " ", "x", NL, "**Overall Summary**", NL, "ok", " ", NL>>,
    <<" ", "S", "o", "r", "r", "y", ".">>,
    <<"**Overall Summary**", NL, "### Analysis of Comment", ":", " ", "x">>,
    <<" ", NL>> }

BackendReplies ==
    {[net |-> "ok", status |-> 200, body |-> "completion", content |-> t] : t \in BackendTexts}
    \cup {[net |-> "ok", status |-> 200, body |-> "malformed", content |-> <<>>],
          [net |-> "ok", status |-> 200, body |-> "completion", content |-> None],
          [net |-> "ok", status |-> 500, body |-> "text", content |-> <<"d","o","w","n">>],
          [net |-> "ok", status |-> 401, body |-> "text", content |-> <<>>],
          [net |-> "timeout", status |-> 0, body |-> "", content |-> <<>>],
          [net |-> "refused", status |-> 0, body |-> "", content |-> <<>>]}

\* the result of _call_azure_openai when the backend answers r
_call_azure_openai(r) ==
    IF r.net = "timeout" THEN Raised("Timeout", <<"Read timed out.">>)
    ELSE IF r.net # "ok" THEN Raised("ConnectionError", <<"Connection refused">>)
    ELSE IF r.status = 200
    THEN IF r.body = "completion" THEN Returned(r.content)
         ELSE Raised("KeyError", <<"'choices'">>)
    ELSE Raised("RuntimeError",
                <<"Azure OpenAI API error: ">> \o IntToStr(r.status) \o <<" - ">> \o r.content)

\* a mutation: a failed backend call answered with the mock report
RemoteFailureFallsBack(e) ==
    Returned(_create_mock_report(code_snippet, Iter(review_comments), language,
                                 severity_levels, [k \in 1..Len(severity_levels) |-> k]))

\* raise RuntimeError(f"Failed to generate review: {str(e)}")
RemoteFailure(e) ==
    Raised("RuntimeError", <<"Failed to generate review: ">> \o e.value)

(***************************************************************************)
(* generate_empathetic_review, step by step                                *)
(***************************************************************************)
Bump(callee) == [calls EXCEPT ![callee] = @ + 1]

\* reviewer.generate_empathetic_review(d) is entered
Call(requests) ==
    /\ pc = "idle"
    /\ reviewer.exists
    /\ \E d \in requests :
        /\ input_data' = d
        /\ code_snippet' = Get(d, "code_snippet", <<>>)
        /\ review_comments' = Get(d, "review_comments", EmptyList)
    /\ pc' = "check_code"
    /\ UNCHANGED <<env, reviewer, init_call, language, severity_levels, prompt, reply,
                   outcome, calls, remembered, probe,
                   session_state>>

\* a mutation: the snippet is checked only for being present
CodeRejectedOnlyIfMissing == "code_snippet" \notin input_data.keys

\* not code_snippet
CodeRejected == ~Truthy(code_snippet)

\* if not code_snippet: raise ValueError
CheckCode ==
    /\ pc = "check_code"
    /\ IF CodeRejected
       THEN /\ outcome' = Raised("ValueError", <<"code_snippet is required">>)
            /\ pc' = "done"
       ELSE /\ outcome' = outcome
            /\ pc' = "check_comments"
    /\ UNCHANGED <<env, reviewer, init_call, input_data, code_snippet, review_comments,
                   language, severity_levels, prompt, reply, calls, remembered, probe,
                   session_state>>

\* not review_comments
CommentsRejected == Len(review_comments.items) = 0

\* if not review_comments: raise ValueError
CheckComments ==
    /\ pc = "check_comments"
    /\ IF CommentsRejected
       THEN /\ outcome' = Raised("ValueError", <<"review_comments list cannot be empty">>)
            /\ pc' = "done"
       ELSE /\ outcome' = outcome
            /\ pc' = "detect"
    /\ UNCHANGED <<env, reviewer, init_call, input_data, code_snippet, review_comments,
                   language, severity_levels, prompt, reply, calls, remembered, probe,
                   session_state>>

\* language = self._detect_language(code_snippet)
Detect ==
    /\ pc = "detect"
    /\ language' = _detect_language(code_snippet)
    /\ calls' = Bump("detect")
    /\ pc' = "classify"
    /\ UNCHANGED <<env, reviewer, init_call, input_data, code_snippet, review_comments,
                   severity_levels, prompt, reply, outcome, remembered, probe,
                   session_state>>

\* one element of [self._assess_comment_severity(comment) for comment in review_comments]
Classify ==
    /\ pc = "classify"
    /\ LET i == Len(severity_levels) + 1
       IN  /\ severity_levels' =
                  Append(severity_levels, _assess_comment_severity(Iter(review_comments)[i]))
           /\ pc' = IF i = Len(Iter(review_comments)) THEN "compose" ELSE "classify"
    /\ calls' = Bump("severity")
    /\ UNCHANGED <<env, reviewer, init_call, input_data, code_snippet, review_comments,
                   language, prompt, reply, outcome, remembered, probe,
                   session_state>>

\* a mutation: the prompt composed only when the backend is going to read it
ComposeOnlyWhenRemote ==
    /\ pc = "compose"
    /\ IF reviewer.use_mock
       THEN /\ prompt' = prompt
            /\ calls' = calls
       ELSE /\ prompt' = _create_detailed_prompt(code_snippet, Iter(review_comments),
                                                 language, severity_levels)
            /\ calls' = Bump("prompt")
    /\ pc' = "synthesize"
    /\ UNCHANGED <<env, reviewer, init_call, input_data, code_snippet, review_comments,
                   language, severity_levels, reply, outcome, remembered, probe,
                   session_state>>

\* prompt = self._create_detailed_prompt(...)
Compose ==
    /\ pc = "compose"
    /\ prompt' = _create_detailed_prompt(code_snippet, Iter(review_comments), language,
                                         severity_levels)
    /\ calls' = Bump("prompt")
    /\ pc' = "synthesize"
    /\ UNCHANGED <<env, reviewer, init_call, input_data, code_snippet, review_comments,
                   language, severity_levels, reply, outcome, remembered, probe,
                   session_state>>

\* if self.use_mock: return self._create_mock_report(...)
MockSynth ==
    /\ pc = "synthesize"
    /\ reviewer.use_mock
    /\ calls' = Bump("mock")
    /\ \E order \in MockOrders(ZipLen(Iter(review_comments), severity_levels)) :
          outcome' = IF MockRaises(code_snippet)
                     THEN Raised("IndexError", <<"list index out of range">>)
                     ELSE Returned(_create_mock_report(code_snippet, Iter(review_comments),
                                                       language, severity_levels, order))
    /\ pc' = "done"
    /\ UNCHANGED <<env, reviewer, init_call, input_data, code_snippet, review_comments,
                   language, severity_levels, prompt, reply, remembered, probe,
                   session_state>>

\* try: response = self._call_azure_openai(prompt); return response.strip()
\* except Exception as e: raise RuntimeError(...)
RemoteSynth ==
    /\ pc = "synthesize"
    /\ ~reviewer.use_mock
    /\ calls' = Bump("backend")
    /\ \E r \in BackendReplies :
        /\ reply' = r
        /\ LET response == _call_azure_openai(r)
           IN  outcome' = IF response.kind = "returned" /\ response.value # None
                          THEN Returned(strip(response.value))
                          ELSE IF response.kind = "returned"
                          THEN RemoteFailure(Raised("AttributeError",
                                   <<"'NoneType' object has no attribute 'strip'">>))
                          ELSE RemoteFailure(response)
    /\ pc' = "done"
    /\ UNCHANGED <<env, reviewer, init_call, input_data, code_snippet, review_comments,
                   language, severity_levels, prompt, remembered, probe,
                   session_state>>

\* the call ends: its frame is gone; the observer may keep a mock report
Return(keeps) ==
    /\ pc = "done"
    /\ pc' = "idle"
    /\ \E keep \in keeps :
          remembered' = IF keep /\ reviewer.use_mock /\ outcome.kind = "returned"
                        THEN [set |-> TRUE, input |-> input_data, report |-> outcome.value]
                        ELSE remembered
    /\ FrameCleared
    /\ UNCHANGED <<env, reviewer, init_call, probe,
                   session_state>>

(***************************************************************************)
(* Requests and environments                                               *)
(***************************************************************************)
\* "def f(x): return x==True"
SnippetPython == <<"d","e","f"," ","f","(","x",")",":"," ","r","e","t","u","r","n"," ","x","=","=","T","r","u","e">>
\* "function foo() { }"
SnippetJavaScript == <<"f","u","n","c","t","i","o","n"," ","f","o","o","(",")"," ","{"," ","}">>
\* first line empty
SnippetBlankFirst == <<NL,"x"," ","="," ","1">>
\* whitespace only
SnippetSpaces == <<" "," ">>

\* "Bad variable name"
CommentBad == <<"B","a","d"," ","v","a","r","i","a","b","l","e"," ","n","a","m","e">>
\* "Boolean comparison is redundant"
CommentRedundant == <<"B","o","o","l","e","a","n"," ","c","o","m","p","a","r","i","s","o","n"," ","i","s"," ","r","e","d","u","n","d","a","n","t">>
\* a comment holding a quote and a line break
CommentTwoLines == <<"A","d","d"," ",QUOTE,"a",QUOTE,NL,"t","e","s","t">>

Snippets == {SnippetPython, SnippetJavaScript, SnippetBlankFirst, SnippetSpaces}
CommentTexts == {CommentBad, CommentRedundant, CommentTwoLines}

\* the lists of at most n elements of S
ListsUpTo(S, n) == UNION {[1..k -> S] : k \in 0..n}

\* values found under "review_comments": lists of comments, and one str
CommentValues(texts) ==
    {[kind |-> "list", items |-> l] : l \in ListsUpTo(texts, MaxComments)}
    \cup {[kind |-> "str", items |-> <<"b","a","d">>]}

\* the input dicts built from these snippets and comments, keys missing or not
RequestsOf(snippets, texts) ==
    {[keys |-> ks, code_snippet |-> c, review_comments |-> v] :
        ks \in {{"code_snippet", "review_comments"}},
        c \in snippets \cup {<<>>}, v \in CommentValues(texts)}
    \cup {[keys |-> {"review_comments"}, code_snippet |-> <<>>, review_comments |-> v] :
            v \in CommentValues(texts)}
    \cup {[keys |-> {"code_snippet"}, code_snippet |-> c, review_comments |-> EmptyList] :
            c \in snippets \cup {<<>>}}
    \cup {NoInput}

Requests == RequestsOf(Snippets, CommentTexts)
RepeatRequests == RequestsOf({SnippetPython, SnippetBlankFirst}, {CommentBad, CommentTwoLines})

Unset == [n \in EnvNames |-> None]
EnvConfigured ==
    [Unset EXCEPT !["AZURE_OPENAI_API_KEY"] = <<"k">>,
                  !["AZURE_OPENAI_ENDPOINT"] = <<"h","/">>,
                  !["AZURE_OPENAI_API_VERSION"] = <<"1">>,
                  !["AZURE_OPENAI_DEPLOYMENT_NAME"] = <<"m">>]
EnvMockOnly == [Unset EXCEPT !["USE_MOCK"] = <<"T","R","U","E">>]
EnvPartial ==
    [EnvConfigured EXCEPT !["AZURE_OPENAI_API_KEY"] = None,
                          !["AZURE_OPENAI_ENDPOINT"] = <<>>]
Envs == {EnvConfigured, EnvMockOnly, EnvPartial}

\* every setting of the five variables: unset, empty or set
UseMockValues == {None, <<>>, <<"1">>, <<"0">>, <<"t","r","u","e">>, <<"T","r","u","e">>,
                  <<"Y","E","S">>, <<"n","o">>, <<"o","n">>}
AllEnvs ==
    {[n \in EnvNames |-> IF n = "USE_MOCK" THEN m ELSE a[n]] :
        m \in UseMockValues, a \in [EnvNames \ {"USE_MOCK"} -> {None, <<>>, <<"v">>}]}

(***************************************************************************)
(* The program                                                             *)
(***************************************************************************)
Idle ==
    /\ reviewer = NoReviewer
    /\ init_call = NoInitCall
    /\ pc = "idle"
    /\ input_data = NoInput
    /\ code_snippet = <<>>
    /\ review_comments = EmptyList
    /\ language = <<>>
    /\ severity_levels = <<>>
    /\ prompt = <<>>
    /\ reply = NoReply
    /\ outcome = NoOutcome
    /\ calls = ZeroCalls
    /\ remembered = NoMemory
    /\ session_state = NoSession

Init ==
    /\ env \in Envs
    /\ Idle
    /\ probe = NoProbe

Steps == CheckCode \/ CheckComments \/ Detect \/ Classify \/ Compose \/ MockSynth \/ RemoteSynth

Next ==
    \/ \E use_mock \in BOOLEAN : Construct(use_mock)
    \/ Call(Requests)
    \/ Steps
    \/ Return({FALSE})

Spec == Init /\ [][Next]_vars

\* the same program, watched by an observer that keeps one earlier mock report
NextRepeat ==
    \/ \E use_mock \in BOOLEAN : Construct(use_mock)
    \/ Call(RepeatRequests)
    \/ Steps
    \/ Return(BOOLEAN)

SpecRepeat == Init /\ [][NextRepeat]_vars

\* __init__ under every environment
InitConfig ==
    /\ env \in AllEnvs
    /\ Idle
    /\ probe = NoProbe

NextConfig == \E use_mock \in BOOLEAN : Construct(use_mock)

SpecConfig == InitConfig /\ [][NextConfig]_vars

(***************************************************************************)
(* The helpers called directly                                             *)
(***************************************************************************)
SeverityFrags ==
    {harsh_words[i] : i \in 1..Len(harsh_words)}
    \cup {critical_words[i] : i \in 1..Len(critical_words)}
    \cup {<<"B","A","D">>, <<"b","a">>, <<"d">>, <<"W","e","A","k">>, <<"P","o">>,
          <<"o","r">>, <<" ">>, <<"x">>}

\* the comment classified before the probed one
SeverityContexts == {<<"a","w","f","u","l">>, <<"o","k">>}

LanguageFrags ==
    {PAT_def, PAT_colon, PAT_function, PAT_brace, PAT_public_class, PAT_private,
     PAT_include, PAT_int_main, PAT_func,
     <<"d","e","f"," ","f","(",")",":">>,
     <<"f","u","n","c","t","i","o","n","(",")","{">>,
     <<"f","u","n","c"," ","f","(",")","{">>,
     <<"d","e","f">>, <<"f","u","n","c">>, <<" ">>, <<"x">>}

InitSeverity ==
    /\ env = EnvConfigured
    /\ Idle
    /\ \E ctx \in SeverityContexts, c \in Concats(SeverityFrags, MaxSeverityFrags) :
          probe = [fn |-> "severity", arg |-> <<ctx, c>>, ret |-> <<>>]

\* [self._assess_comment_severity(comment) for comment in arg]
ProbeSeverity ==
    /\ probe.fn = "severity"
    /\ probe.ret = <<>>
    /\ probe' = [probe EXCEPT !.ret =
                    [i \in 1..Len(probe.arg) |-> _assess_comment_severity(probe.arg[i])]]
    /\ UNCHANGED <<env, reviewer, init_call, pc, input_data, code_snippet, review_comments,
                   language, severity_levels, prompt, reply, outcome, calls, remembered,
                   session_state>>

SpecSeverity == InitSeverity /\ [][ProbeSeverity]_vars

InitLanguage ==
    /\ env = EnvConfigured
    /\ Idle
    /\ \E c \in Concats(LanguageFrags, MaxLanguageFrags) :
          probe = [fn |-> "language", arg |-> c, ret |-> <<>>]

\* self._detect_language(arg)
ProbeLanguage ==
    /\ probe.fn = "language"
    /\ probe.ret = <<>>
    /\ probe' = [probe EXCEPT !.ret = _detect_language(probe.arg)]
    /\ UNCHANGED <<env, reviewer, init_call, pc, input_data, code_snippet, review_comments,
                   language, severity_levels, prompt, reply, outcome, calls, remembered,
                   session_state>>

SpecLanguage == InitLanguage /\ [][ProbeLanguage]_vars

(***************************************************************************)
(* The web form: main of streamlit_app.py.  The script runs once when the  *)
(* session starts and once more after every interaction of the user; an    *)
(* action is one such interaction, the runs it causes included.            *)
(***************************************************************************)
\* the variables the form leaves alone
reviewer_vars == <<env, reviewer, init_call, pc, input_data, code_snippet, review_comments,
                   language, severity_levels, prompt, reply, outcome, calls, remembered,
                   probe>>

\* the files load_example_files finds, and the review_comments each holds
ExampleFiles == {"two.json", "none.json"}
ExampleComments(name) ==
    IF name = "two.json" THEN <<CommentBad, CommentRedundant>> ELSE <<>>

\* review_comments of the script: those of the selected example, [] without one
FormReviewComments(selected_example) ==
    IF selected_example # "" /\ selected_example \in ExampleFiles
    THEN ExampleComments(selected_example)
    ELSE <<>>

\* if 'comments' not in st.session_state:
\*     st.session_state.comments = review_comments if review_comments else [""]
InitComments(ss) ==
    IF ss.has_comments THEN ss
    ELSE [ss EXCEPT !.has_comments = TRUE,
                    !.comments = IF FormReviewComments(ss.selected_example) # <<>>
                                 THEN FormReviewComments(ss.selected_example)
                                 ELSE << <<>> >>]

\* what the user types into a row
FormTexts == {<<>>, <<"x">>, CommentBad}

\* list.pop(i), rows counted from 1
Pop(list, i) == SubSeq(list, 1, i - 1) \o SubSeq(list, i + 1, Len(list))

\* the rows after the run st.rerun() starts, in which every row is assigned
\* what its st.text_input returns: the value it is given, or what the widget
\* of the same key showed in the run before
RerunRows(list, shown) ==
    {list, [j \in 1..Len(list) |-> IF j <= Len(shown) THEN shown[j] ELSE list[j]]}

\* a mutation: the remove button drawn on every row, also on the only one
RemoveOfferedOnEveryRow == Len(session_state.comments) >= 1

\* if len(st.session_state.comments) > 1: the row gets a remove button
RemoveOffered == Len(session_state.comments) > 1

\* the first run of the script in a session
FirstRun ==
    /\ ~session_state.has_comments
    /\ session_state' = [InitComments(session_state) EXCEPT !.clicked = "load"]
    /\ UNCHANGED reviewer_vars

\* the user changes the text of row i
EditRow(i, text) ==
    /\ session_state.has_comments
    /\ i \in 1..Len(session_state.comments)
    /\ session_state' = [InitComments(session_state) EXCEPT !.comments[i] = text,
                                                           !.clicked = "text"]
    /\ UNCHANGED reviewer_vars

\* the remove button of row i: st.session_state.comments.pop(i); st.rerun()
Remove(i) ==
    /\ session_state.has_comments
    /\ i \in 1..Len(session_state.comments)
    /\ RemoveOffered
    /\ \E rows \in RerunRows(Pop(session_state.comments, i), session_state.comments) :
          session_state' = [InitComments(session_state) EXCEPT !.comments = rows,
                                                              !.clicked = "remove"]
    /\ UNCHANGED reviewer_vars

\* Add Comment: st.session_state.comments.append(""); st.rerun()
AddComment ==
    /\ session_state.has_comments
    /\ Len(session_state.comments) < MaxRows
    /\ \E rows \in RerunRows(Append(session_state.comments, <<>>), session_state.comments) :
          session_state' = [InitComments(session_state) EXCEPT !.comments = rows,
                                                              !.clicked = "add"]
    /\ UNCHANGED reviewer_vars

\* Clear All: st.session_state.comments = [""]; st.rerun()
ClearAll ==
    /\ session_state.has_comments
    /\ \E rows \in RerunRows(<< <<>> >>, session_state.comments) :
          session_state' = [InitComments(session_state) EXCEPT !.comments = rows,
                                                              !.clicked = "clear"]
    /\ UNCHANGED reviewer_vars

\* the user picks an entry of the example selector
SelectExample(name) ==
    /\ session_state.has_comments
    /\ name # session_state.selected_example
    /\ session_state' = [InitComments(session_state) EXCEPT !.selected_example = name,
                                                           !.clicked = "select"]
    /\ UNCHANGED reviewer_vars

InitForm ==
    /\ env = EnvConfigured
    /\ Idle
    /\ probe = NoProbe

NextForm ==
    \/ FirstRun
    \/ \E i \in 1..MaxRows, text \in FormTexts : EditRow(i, text)
    \/ \E i \in 1..MaxRows : Remove(i)
    \/ AddComment
    \/ ClearAll
    \/ \E name \in {""} \cup ExampleFiles : SelectExample(name)

SpecForm == InitForm /\ [][NextForm]_vars

(***************************************************************************)
(* Reading a report                                                        *)
(***************************************************************************)
\* the places of a report where a symbol stands
PositionsOf(symbol, report) == {p \in 1..Len(report) : report[p] = symbol}

\* the i-th smallest element of a set of numbers
NthOf(P, i) == CHOOSE p \in P : Cardinality({q \in P : q < p}) = i - 1

\* piece is what text holds from place p on
StartsAt(text, p, piece) ==
    /\ p + Len(piece) - 1 <= Len(text)
    /\ \A k \in 1..Len(piece) : text[p + k - 1] = piece[k]

\* the request of the running call, as given
GivenSnippet == Get(input_data, "code_snippet", <<>>)
GivenComments == Get(input_data, "review_comments", EmptyList)
PassesValidation == Len(GivenSnippet) > 0 /\ Len(GivenComments.items) > 0

MockDone == pc = "done" /\ reviewer.use_mock
RemoteDone == pc = "done" /\ ~reviewer.use_mock

(***************************************************************************)
(* C1: in mock mode, a request with a non-empty snippet and a non-empty    *)
(* list of comments gets a report with exactly len(review_comments)        *)
(* subsection headings; the i-th heading carries the number i and quotes   *)
(* the i-th comment verbatim.                                              *)
(***************************************************************************)
C1_OneSubsectionPerComment ==
    (MockDone /\ PassesValidation) =>
        /\ outcome.kind = "returned"
        /\ LET report == outcome.value
               comments == Iter(GivenComments)
               P == PositionsOf("### Analysis of Comment", report)
           IN  /\ Cardinality(P) = Len(comments)
               /\ \A i \in 1..Len(comments) :
                      StartsAt(report, NthOf(P, i),
                               <<"### Analysis of Comment", " ", Digits[i + 1], ": ", QUOTE>>
                                   \o comments[i] \o <<QUOTE, NL>>)

C1_Witness ==
    /\ MockDone
    /\ outcome.kind = "returned"
    /\ GivenComments = [kind |-> "list", items |-> <<CommentTwoLines, CommentBad>>]

(***************************************************************************)
(* C2, as stated: every report returned holds exactly one Overall Summary  *)
(* section, placed after all per-comment subsections.                      *)
(***************************************************************************)
OneSummaryLast(report) ==
    LET S == PositionsOf("**Overall Summary**", report)
        P == PositionsOf("### Analysis of Comment", report)
    IN  /\ Cardinality(S) = 1
        /\ \A s \in S, p \in P : p < s

C2_EveryReportHasOneSummaryLast ==
    (pc = "done" /\ outcome.kind = "returned") => OneSummaryLast(outcome.value)

(***************************************************************************)
(* C2, amended: every report returned in mock mode holds exactly one       *)
(* Overall Summary section, placed after all per-comment subsections.      *)
(***************************************************************************)
C2_MockReportHasOneSummaryLast ==
    (MockDone /\ outcome.kind = "returned") => OneSummaryLast(outcome.value)

C2_Witness ==
    /\ MockDone
    /\ outcome.kind = "returned"
    /\ Len(Iter(GivenComments)) = 2
    /\ Cardinality(PositionsOf("### Analysis of Comment", outcome.value)) = 2

(***************************************************************************)
(* C3: a call with an empty or missing code_snippet raises the             *)
(* code_snippet ValueError having called nothing: no detection, no         *)
(* severity classification, no prompt, no synthesizer.                     *)
(***************************************************************************)
C3_EmptySnippetFailsFirst ==
    (pc # "idle" /\ Len(GivenSnippet) = 0) =>
        /\ calls = ZeroCalls
        /\ pc \in {"check_code", "done"}
        /\ pc = "done" => outcome = Raised("ValueError", <<"code_snippet is required">>)

C3_Witness ==
    /\ pc = "done"
    /\ "code_snippet" \in input_data.keys
    /\ Len(GivenSnippet) = 0
    /\ Len(GivenComments.items) = 2
    /\ outcome.kind = "raised"

(***************************************************************************)
(* C4, as stated: a call with a non-empty code_snippet and review_comments *)
(* empty, missing or not a list (a str) raises a ValueError having called  *)
(* nothing.                                                                *)
(***************************************************************************)
C4_BadCommentsFailFirst ==
    (pc # "idle" /\ Len(GivenSnippet) > 0
        /\ (Len(GivenComments.items) = 0 \/ GivenComments.kind # "list")) =>
        /\ calls = ZeroCalls
        /\ pc = "done" => (outcome.kind = "raised" /\ outcome.type = "ValueError")

(***************************************************************************)
(* C5: the severity of a comment is harsh if its lower-cased text holds a  *)
(* harsh word, whatever else it holds; else critical if it holds a         *)
(* critical word; else mild.  It is the same whatever comment was          *)
(* classified before it.                                                   *)
(***************************************************************************)
\* word occurs in comment, letters compared without regard to case
OccursIgnoringCase(word, comment) ==
    \E p \in 1..Len(comment) :
        /\ p + Len(word) - 1 <= Len(comment)
        /\ \A k \in 1..Len(word) :
              \/ comment[p + k - 1] = word[k]
              \/ \E j \in 1..Len(UpperCase) :
                    comment[p + k - 1] = UpperCase[j] /\ word[k] = LowerCase[j]

HasHarshWord(c) == \E i \in 1..Len(harsh_words) : OccursIgnoringCase(harsh_words[i], c)
HasCriticalWord(c) == \E i \in 1..Len(critical_words) : OccursIgnoringCase(critical_words[i], c)

C5_HarshBeforeCritical ==
    (probe.fn = "severity" /\ probe.ret # <<>>) =>
        /\ Len(probe.ret) = Len(probe.arg)
        /\ \A i \in 1..Len(probe.arg) :
              LET c == probe.arg[i]
              IN  /\ HasHarshWord(c) => probe.ret[i] = "harsh"
                  /\ (~HasHarshWord(c) /\ HasCriticalWord(c)) => probe.ret[i] = "critical"
                  /\ (~HasHarshWord(c) /\ ~HasCriticalWord(c)) => probe.ret[i] = "mild"

C5_Witness ==
    /\ probe.fn = "severity"
    /\ probe.ret # <<>>
    /\ probe.arg[1] = <<"o","k">>
    /\ probe.arg[2] = <<"W","e","A","k","B","A","D">>
    /\ probe.ret[2] = "harsh"

(***************************************************************************)
(* C6: _detect_language answers every snippet with the tag of the first    *)
(* rule that matches, in the order Python, JavaScript, Java, C++, Go, and  *)
(* with Unknown when none does; the empty string gets Unknown.             *)
(***************************************************************************)
\* rule k of the list matches snippet s
RuleMatches(k, s) ==
    CASE k = 1 -> Contains(PAT_def, s) /\ Contains(PAT_colon, s)
      [] k = 2 -> Contains(PAT_function, s) /\ Contains(PAT_brace, s)
      [] k = 3 -> Contains(PAT_public_class, s) \/ Contains(PAT_private, s)
      [] k = 4 -> Contains(PAT_include, s) \/ Contains(PAT_int_main, s)
      [] k = 5 -> Contains(PAT_func, s) /\ Contains(PAT_brace, s)

RuleTags == <<Python, JavaScript, Java, Cpp, Go>>

C6_FirstMatchingRule ==
    (probe.fn = "language" /\ probe.ret # <<>>) =>
        /\ \A k \in 1..5 :
              (RuleMatches(k, probe.arg) /\ \A j \in 1..(k - 1) : ~RuleMatches(j, probe.arg))
                  => probe.ret = RuleTags[k]
        /\ (\A k \in 1..5 : ~RuleMatches(k, probe.arg)) => probe.ret = Unknown
        /\ probe.arg = <<>> => probe.ret = Unknown

C6_Witness ==
    /\ probe.fn = "language"
    /\ RuleMatches(1, probe.arg)
    /\ RuleMatches(2, probe.arg)
    /\ probe.ret = Python

(***************************************************************************)
(* C7: in remote mode, when the backend call fails (no answer, a status    *)
(* other than 200, a body without the completion text), the call raises    *)
(* RuntimeError with the cause in its message, having called the backend   *)
(* once and the mock synthesizer never; nothing is returned.               *)
(***************************************************************************)
BackendFailed(r) ==
    r.net # "ok" \/ r.status # 200 \/ r.body # "completion" \/ r.content = None

\* the text of the failure the backend's answer stands for
CauseText(r) ==
    IF r.net = "ok" /\ r.status = 200 /\ r.body = "completion"
    THEN <<"'NoneType' object has no attribute 'strip'">>
    ELSE _call_azure_openai(r).value

C7_RemoteFailureIsFinal ==
    /\ (pc # "idle" /\ ~reviewer.use_mock) => (calls.backend <= 1 /\ calls.mock = 0)
    /\ (RemoteDone /\ reply # NoReply /\ BackendFailed(reply)) =>
          /\ outcome.kind = "raised"
          /\ outcome.type = "RuntimeError"
          /\ outcome.value = <<"Failed to generate review: ">> \o CauseText(reply)
          /\ calls.backend = 1

C7_Witness ==
    /\ RemoteDone
    /\ reply.status = 500
    /\ outcome.kind = "raised"
    /\ Contains(<<"5","0","0">>, outcome.value)

(***************************************************************************)
(* C8: EmpatheticCodeReviewer(use_mock) with mock mode off (the argument   *)
(* false and USE_MOCK not 1, true or yes in any letter case) and one of    *)
(* the four backend variables unset or empty raises a ValueError whose     *)
(* message names every such variable, and no instance exists; with mock    *)
(* mode on it succeeds under every environment.                            *)
(***************************************************************************)
BackendVars == EnvNames \ {"USE_MOCK"}
AbsentVars == {v \in BackendVars : env[v] = None \/ env[v] = <<>>}
EnvEnablesMock ==
    env["USE_MOCK"] \in {<<"1">>, <<"t","r","u","e">>, <<"T","r","u","e">>, <<"T","R","U","E">>,
                         <<"Y","E","S">>}

C8_ConstructionChecksConfiguration ==
    init_call.made =>
        LET mock_on == init_call.use_mock \/ EnvEnablesMock
        IN  /\ (~mock_on /\ AbsentVars # {}) =>
                  /\ init_call.raised
                  /\ ~reviewer.exists
                  /\ \A v \in AbsentVars : \E p \in 1..Len(init_call.message) :
                        init_call.message[p] = v
                  /\ \A v \in BackendVars \ AbsentVars :
                        \A p \in 1..Len(init_call.message) : init_call.message[p] # v
            /\ (~mock_on /\ AbsentVars = {}) =>
                  (~init_call.raised /\ reviewer.exists /\ ~reviewer.use_mock)
            /\ mock_on => (~init_call.raised /\ reviewer.exists /\ reviewer.use_mock)

C8_Witness ==
    /\ init_call.made
    /\ init_call.raised
    /\ env["AZURE_OPENAI_ENDPOINT"] = <<>>
    /\ env["AZURE_OPENAI_DEPLOYMENT_NAME"] = None
    /\ Cardinality(AbsentVars) = 2

(***************************************************************************)
(* C9: in mock mode the backend is never called, and every request that    *)
(* passes validation is answered with a report, also when the snippet's    *)
(* first line is empty or the snippet is only whitespace.                  *)
(***************************************************************************)
C9_MockNeverCallsBackendNorFails ==
    (pc # "idle" /\ reviewer.use_mock) =>
        /\ calls.backend = 0
        /\ reply = NoReply
        /\ (pc = "done" /\ PassesValidation) =>
              (outcome.kind = "returned" /\ calls.mock = 1)

C9_Witness ==
    /\ MockDone
    /\ GivenSnippet = SnippetSpaces
    /\ outcome.kind = "returned"
    /\ reviewer.api_key # None

(***************************************************************************)
(* C10: a mock report equals the mock report any earlier invocation gave   *)
(* for the same input, whatever ran in between and whichever instance      *)
(* served it.                                                              *)
(***************************************************************************)
C10_SameInputSameMockReport ==
    (MockDone /\ outcome.kind = "returned" /\ remembered.set
        /\ remembered.input = input_data) =>
        outcome.value = remembered.report

C10_Witness ==
    /\ MockDone
    /\ outcome.kind = "returned"
    /\ remembered.set
    /\ remembered.input = input_data
    /\ GivenComments = [kind |-> "list", items |-> <<CommentBad, CommentTwoLines>>]

(***************************************************************************)
(* C11: within one call the language is detected once, from code_snippet;  *)
(* in the composed prompt and in the mock report every fence that opens a  *)
(* code block is followed by that language's name in lower case and the    *)
(* end of the line, and every fence that closes one by the end of the      *)
(* line: no fence carries another tag.  A snippet holding function and a   *)
(* brace but no def gets javascript on every fence.                        *)
(***************************************************************************)
\* the fence tags, in the order of the detection rules
LowerTags == << <<"p","y","t","h","o","n">>,
                <<"j","a","v","a","s","c","r","i","p","t">>,
                <<"j","a","v","a">>,
                <<"c","+","+">>,
                <<"g","o">> >>

\* the tag the fences of a call on snippet s are to carry
TagFor(s) ==
    IF \E k \in 1..5 : RuleMatches(k, s)
    THEN LowerTags[CHOOSE k \in 1..5 :
                      RuleMatches(k, s) /\ \A j \in 1..(k - 1) : ~RuleMatches(j, s)]
    ELSE <<"u","n","k","n","o","w","n">>

\* text holds 2 * blocks fences; the odd ones open a block tagged tag, the
\* even ones close it
FencesTagged(text, tag, blocks) ==
    LET F == PositionsOf(FENCE, text)
    IN  /\ Cardinality(F) = 2 * blocks
        /\ \A i \in 1..Cardinality(F) :
              LET p == NthOf(F, i)
              IN  IF i % 2 = 1
                  THEN StartsAt(text, p + 1, tag \o <<NL>>)
                  ELSE p = Len(text) \/ text[p + 1] = NL

C11_OneTagOnEveryFence ==
    /\ calls.detect <= 1
    /\ calls.detect = 1 => lower(language) = TagFor(GivenSnippet)
    /\ calls.prompt = 1 => FencesTagged(prompt, TagFor(GivenSnippet), 2)
    /\ (MockDone /\ outcome.kind = "returned") =>
          /\ calls.detect = 1
          /\ calls.prompt = 1
          /\ FencesTagged(outcome.value, TagFor(GivenSnippet), Len(Iter(GivenComments)))

C11_Witness ==
    /\ MockDone
    /\ outcome.kind = "returned"
    /\ GivenSnippet = SnippetJavaScript
    /\ Len(Iter(GivenComments)) = 2
    /\ language = JavaScript
    /\ Contains(<<FENCE, "j","a","v","a","s","c","r","i","p","t", NL>>, prompt)
    /\ Contains(<<FENCE, "j","a","v","a","s","c","r","i","p","t", NL>>, outcome.value)

(***************************************************************************)
(* C12, as stated: the mock report has the shape the instruction template  *)
(* of the composed prompt prescribes.  After the opening rule, every       *)
(* comment gets one subsection made as the template is: the template's     *)
(* heading with the comment in the place of its placeholder, then the      *)
(* parts Positive Rephrasing, The 'Why', Suggested Improvement with one    *)
(* fenced block, Learn More, in this order and no other, then a rule; the  *)
(* Overall Summary follows the last subsection.                            *)
(***************************************************************************)
\* what a composed prompt holds between its Instructions heading and its
\* Additional Requirements heading
InstructionTemplate(p) ==
    LET a == CHOOSE i \in 1..Len(p) : p[i] = "**Instructions:**"
        b == CHOOSE i \in 1..Len(p) : p[i] = "**Additional Requirements:**"
    IN  SubSeq(p, a + 1, b - 1)

ShapeMarks == {"---", "### Analysis of Comment", "* **Positive Rephrasing:**",
               "* **The 'Why':**", "* **Suggested Improvement:**", FENCE,
               "* **Learn More:**", "**Overall Summary**"}

\* the rules, headings, labels and fences of a text, in their order
Marks(text) == SelectSeq(text, LAMBDA x : x \in ShapeMarks)

\* the heading line of template t, the comment standing for its placeholder
TemplateHeading(t, comment) ==
    LET h == CHOOSE i \in 1..Len(t) : t[i] = "### Analysis of Comment"
        o == CHOOSE i \in 1..Len(t) : t[i] = "[original comment]"
        e == CHOOSE i \in (o + 1)..Len(t) :
                 t[i] = NL /\ \A j \in (o + 1)..(i - 1) : t[j] # NL
    IN  SubSeq(t, h, o - 1) \o comment \o SubSeq(t, o + 1, e)

RECURSIVE Repeat(_, _)
\* n copies of a sequence
Repeat(seq, n) == IF n = 0 THEN <<>> ELSE seq \o Repeat(seq, n - 1)

\* the marks of a report of n subsections made as template t is
ShapeOf(t, n) ==
    <<Head(Marks(t))>> \o Repeat(Tail(Marks(t)), n) \o <<"**Overall Summary**">>

C12_MockReportHasTemplateShape ==
    (MockDone /\ outcome.kind = "returned") =>
        LET t == InstructionTemplate(prompt)
            report == outcome.value
            comments == Iter(GivenComments)
            P == PositionsOf("### Analysis of Comment", report)
        IN  /\ Marks(report) = ShapeOf(t, Len(comments))
            /\ Cardinality(P) = Len(comments)
            /\ \A i \in 1..Len(comments) :
                  StartsAt(report, NthOf(P, i), TemplateHeading(t, comments[i]))

(***************************************************************************)
(* C13: a call that passes validation detects the language once, then      *)
(* classifies every comment once, in input order, then composes the prompt *)
(* once, in mock mode as in remote mode, then runs one synthesizer, the    *)
(* mock one in mock mode and the remote one otherwise, and returns what    *)
(* that synthesizer gave.  The code_snippet check comes before the         *)
(* review_comments check: with both empty the code_snippet error is the    *)
(* one raised.                                                             *)
(***************************************************************************)
\* the severity of a comment, by the vocabularies
SeverityOf(c) ==
    IF HasHarshWord(c) THEN "harsh" ELSE IF HasCriticalWord(c) THEN "critical" ELSE "mild"

Synthesized == calls.mock + calls.backend

\* what has run so far has run in the order of the steps, each step as often
\* as it is due
StepsSoFarInOrder ==
    LET n == Len(Iter(GivenComments))
    IN  /\ calls.detect <= 1 /\ calls.severity <= n /\ calls.prompt <= 1 /\ Synthesized <= 1
        /\ calls.detect = 1 => PassesValidation
        /\ calls.severity > 0 => calls.detect = 1
        /\ calls.prompt = 1 => calls.severity = n
        /\ Synthesized = 1 => calls.prompt = 1
        /\ calls.mock = 1 => reviewer.use_mock
        /\ calls.backend = 1 => ~reviewer.use_mock
        /\ Len(severity_levels) = calls.severity
        /\ \A i \in 1..calls.severity :
              severity_levels[i] = SeverityOf(Iter(GivenComments)[i])

\* a call that has ended
RunEndedInOrder ==
    pc = "done" =>
        /\ PassesValidation =>
              /\ calls.detect = 1
              /\ calls.severity = Len(Iter(GivenComments))
              /\ calls.prompt = 1
              /\ Synthesized = 1
              /\ reviewer.use_mock =>
                    /\ calls.mock = 1
                    /\ outcome.kind = "returned"
                    /\ \E order \in MockOrders(Len(Iter(GivenComments))) :
                          outcome.value =
                              _create_mock_report(GivenSnippet, Iter(GivenComments), language,
                                                  severity_levels, order)
              /\ (~reviewer.use_mock /\ ~BackendFailed(reply)) =>
                    /\ calls.backend = 1
                    /\ outcome = Returned(strip(reply.content))
        /\ ~PassesValidation =>
              /\ calls = ZeroCalls
              /\ outcome.kind = "raised"
              /\ outcome.type = "ValueError"
        /\ Len(GivenSnippet) = 0 =>
              outcome = Raised("ValueError", <<"code_snippet is required">>)

\* one step of a call: each callee is entered only after the callees before
\* it are through and before any callee after it has started
StepInOrder ==
    LET n == Len(Iter(GivenComments))
    IN  /\ calls'.detect > calls.detect =>
              (calls = ZeroCalls /\ calls' = [ZeroCalls EXCEPT !.detect = 1])
        /\ calls'.severity > calls.severity =>
              /\ calls.detect = 1 /\ calls.prompt = 0 /\ Synthesized = 0
              /\ calls' = [calls EXCEPT !.severity = @ + 1]
              /\ severity_levels' =
                    Append(severity_levels, SeverityOf(Iter(GivenComments)[calls'.severity]))
        /\ calls'.prompt > calls.prompt =>
              /\ calls.detect = 1 /\ calls.severity = n /\ Synthesized = 0
              /\ calls' = [calls EXCEPT !.prompt = 1]
        /\ (calls'.mock > calls.mock \/ calls'.backend > calls.backend) =>
              /\ calls.detect = 1 /\ calls.severity = n /\ calls.prompt = 1
              /\ Synthesized = 0
              /\ calls' = [calls EXCEPT ![IF reviewer.use_mock THEN "mock" ELSE "backend"] = 1]
              /\ pc' = "done"

C13_StepsInOrder ==
    /\ [](StepsSoFarInOrder /\ RunEndedInOrder)
    /\ [][StepInOrder]_vars

C13_Witness ==
    /\ RemoteDone
    /\ outcome.kind = "returned"
    /\ outcome.value # reply.content
    /\ Len(Iter(GivenComments)) = 2
    /\ calls = [detect |-> 1, severity |-> 2, prompt |-> 1, mock |-> 0, backend |-> 1]
    /\ severity_levels = <<"harsh", "critical">>

(***************************************************************************)
(* C14: in the web form, the list of comment inputs of a session, once the *)
(* first run of the script has set it, holds at least one entry after any  *)
(* sequence of text edits, Add Comment, Remove on a row, Clear All and     *)
(* example selections.                                                     *)
(***************************************************************************)
C14_CommentListNeverEmpty ==
    session_state.has_comments => Len(session_state.comments) >= 1

C14_Witness ==
    /\ session_state.has_comments
    /\ session_state.clicked = "remove"
    /\ session_state.comments = <<CommentBad>>

====
